---- MODULE Spec2Model ----
(***************************************************************************)
(* serenity-mdrecorder: the bitemporal tickstore (tickstore.py), the       *)
(* memory-mapped journal (journal.py), the Coinbase feed that journals     *)
(* trades (coinbase.py) and the daily upload job (scheduler.py).           *)
(***************************************************************************)
EXTENDS Integers, Sequences, FiniteSets, TLC

(***************************************************************************)
(* Bounds of the model.                                                    *)
(***************************************************************************)
\* wall-clock instants utcnow() can return are 1..MaxNow
MaxNow == 2
\* number of LocalTickstore calls in one run
MaxOps == 3
\* number of runs of the daily upload job
MaxUploads == 2
\* UTC days are 1..MaxDay
MaxDay == 3
\* number of match messages the feed delivers in one run
MaxMsgs == 3
\* Journal.max_size of the journal the feed writes to
FeedSize == 96
\* number of connect() coroutines the subscriber starts in one run
MaxConnects == 2
\* number of CoinbaseProSubscriber.close() calls in one run
MaxCloses == 2
\* number of appender calls in one run of the journal
MaxJOps == 3
\* Journal.max_size of the journal the appender calls are made on
JournalSize == 16

(***************************************************************************)
(* Part 1 - tickstore.py                                                   *)
(***************************************************************************)
Symbols == {"BTC", "ETH"}
Dates == {1, 2}
Batches == {"b1"}

\* BiTimestamp.start_as_of / latest_as_of: the smallest and the largest instant
start_as_of == 0
latest_as_of == MaxNow + 1
Instants == start_as_of..latest_as_of

\* a splay file name without an embedded version: "{symbol}.h5" is <<symbol>>,
\* "{symbol}_{version:04d}.h5" is <<symbol, version>>
VersionedName(symbol, version) == <<symbol, version>>
LegacyName(symbol) == <<symbol>>

\* LocalTickstore.insert.create_write_path: base/YYYY/MM/DD/symbol_version.h5
create_write_path(as_at_date, symbol, version) ==
    [date |-> as_at_date, name |-> VersionedName(symbol, version)]

\* the splay files a directory can hold when a store is opened on it
BootPaths ==
    { [date |-> 1, name |-> VersionedName("BTC", 0)],
      [date |-> 1, name |-> VersionedName("BTC", 1)],
      [date |-> 2, name |-> LegacyName("ETH")] }

NoPath == [date |-> 0, name |-> <<>>]

\* no call yet
NoOp == [op |-> "none", symbol |-> "", date |-> 0, ok |-> FALSE,
         existed |-> FALSE, version |-> 0, path |-> NoPath, time |-> 0]
NoPrev == [op |-> "none", symbol |-> "", date |-> 0, ok |-> FALSE,
           existed |-> FALSE]
\* the last call was not a select
NoSelect == [symbol |-> "", start |-> 0, end |-> 0, as_of_time |-> 0,
             returned |-> FALSE, matched |-> 0, ticks |-> <<>>]

\* the value of index_h5 while the index side-file does not exist
NoIndexFile ==
    << [symbol |-> "", date |-> 0, start_time |-> 0, end_time |-> 0,
        version |-> -1, path |-> NoPath] >>

\* the timestamp-column values of the rows of a batch of ticks, in row order
Ticks(batch) ==
    CASE batch = "b0" -> <<2, 0>>
      [] batch = "b1" -> <<3, 1, 2>>
      [] OTHER -> <<>>

\* the as_of_time a select is called with: the default, or the first instant
AsOfTimes == {latest_as_of, 1}

\* the [start, end] ranges a select is called with
Ranges == {<<1, 1>>, <<1, 2>>, <<3, 3>>}

VARIABLES
    df,         \* DataFrameIndex.df: the rows of the index, in table order
    files,      \* splay files on disk: path -> the batch stored in it
    index_h5,   \* the persisted index side-file (the rows last flushed)
    closed,     \* LocalTickstore.closed
    now,        \* the instant datetime.utcnow() returns
    nOps,       \* calls made so far
    lastOp,     \* the last LocalTickstore call and its outcome
    prevOp,     \* the call before it
    written,    \* the paths LocalTickstore.insert has written so far
    raised,     \* the exception the last call raised ("" when it returned)
    lastSelect         \* the last call when it was a select: its arguments and result

storeVars == <<df, files, index_h5, closed, now, nOps, lastOp, prevOp, written,
               raised, lastSelect>>

VARIABLES
    max_size,     \* Journal.max_size
    jfiles,       \* the day files of the journal: day -> its bytes
    ap,           \* the JournalAppender: pos, start_pos, current_date, mm, and
                  \* the number of bytes it has stored through its mapping
    today,        \* datetime.utcnow().date()
    finalizedLen, \* day -> bytes the appender had stored when it finalized it
    extent,       \* day -> end offset of the bytes stored in that file so far
    jOps,         \* appender calls made so far
    jLast         \* the last appender call and its outcome

journalVars == <<max_size, jfiles, ap, today, finalizedLen, extent, jOps, jLast>>

VARIABLES
    fpc,    \* CoinbaseProSubscriber._on_message: the field to write next
            \* (0: no message is being journaled)
    fmsg,   \* the match message being journaled
    sent    \* the records _on_message has journaled, in order, each with the
            \* day of its first write and whether all of it went to that day

feedVars == <<fpc, fmsg, sent>>

VARIABLES
    rd,     \* the JournalReader: the day file it has mapped (mm) and its offset
    rLast,  \* the last JournalReader call and its outcome
    sbArg   \* the last JournalAppender._write_stopbit call: its argument and
            \* the position it began to write at

readerVars == <<rd, rLast, sbArg>>

VARIABLES
    appender,   \* CoinbaseProSubscriber.appender is set (FALSE: it is None);
                \* the JournalAppender it refers to is ap
    ws,         \* CoinbaseProSubscriber._ws_connection: a connection, or None
    coros,      \* the connect() coroutines started so far: where each one is
                \* and the connection whose read_message it awaits
    conns,      \* the connections websocket_connect has returned: open or
                \* not, the coroutines awaiting read_message in call order,
                \* and the messages received and not yet read
    published,  \* the match messages the exchange has published so far
    sLast       \* the CoinbaseProSubscriber.close() calls so far and the
                \* outcome of the last one

subVars == <<appender, ws, coros, conns, published, sLast>>

vars == <<storeVars, journalVars, feedVars, readerVars, subVars>>

\* what the calls of one component leave alone
notStore == <<journalVars, feedVars, readerVars, subVars>>
notJournal == <<storeVars, feedVars, readerVars, subVars>>

Key(row) == <<row.symbol, row.date>>

\* the positions of the rows of table t whose index is (symbol, date)
RowsOf(t, symbol, date) == {i \in 1..Len(t) : Key(t[i]) = <<symbol, date>>}

Last(S) == CHOOSE i \in S : \A j \in S : j <= i

\* df.loc[~df.index.duplicated(keep='first')]
DropDuplicated(t) ==
    LET F[i \in 0..Len(t)] ==
            IF i = 0 THEN <<>>
            ELSE IF \E j \in 1..(i - 1) : Key(t[j]) = Key(t[i])
                 THEN F[i - 1]
                 ELSE Append(F[i - 1], t[i])
    IN F[Len(t)]

\* DataFrameIndex.__init__, one file of the scan: the row it appends
BootRow(path) ==
    LET versioned == Len(path.name) = 2
    IN [symbol |-> path.name[1],
        date |-> path.date,
        start_time |-> start_as_of,
        end_time |-> latest_as_of,
        version |-> IF versioned THEN path.name[2] ELSE 0,
        path |-> path]

\* DataFrameIndex.__init__, one file of the scan: the directory after it
\* (a file without a version is renamed to version 0000, replacing a file
\* of that name)
BootRename(dir, path) ==
    IF Len(path.name) = 2 \/ path \notin DOMAIN dir THEN dir
    ELSE LET target == [date |-> path.date, name |-> VersionedName(path.name[1], 0)]
             keep == (DOMAIN dir \ {path}) \cup {target}
         IN [p \in keep |-> IF p = target THEN dir[path] ELSE dir[p]]

\* DataFrameIndex.__init__ over the scan order `scan` of directory dir
BootIndex(scan) == [i \in 1..Len(scan) |-> BootRow(scan[i])]

BootFiles(dir, scan) ==
    LET F[i \in 0..Len(scan)] ==
            IF i = 0 THEN dir ELSE BootRename(F[i - 1], scan[i])
    IN F[Len(scan)]

\* the orders in which rglob can list the files of a directory
ScanOrders(paths) ==
    {s \in UNION {[1..n -> paths] : n \in {Cardinality(paths)}} :
        \A i, j \in DOMAIN s : i # j => s[i] # s[j]}


\* DataFrame.update(all_versions) reindexes all_versions like df: it raises
\* when the rows of the key are not unique, unless the two indexes are
\* identical (every row of df has this key)
CanUpdate(t, symbol, date) ==
    LET rows == RowsOf(t, symbol, date)
    IN Cardinality(rows) = 1 \/ rows = 1..Len(t)

\* all_versions.loc[all_versions['version'] == prev_version, 'end_time'] = at
\* followed by df.update(all_versions)
EndVersion(t, symbol, date, at) ==
    LET rows == RowsOf(t, symbol, date)
        prev_version == t[Last(rows)].version
    IN [i \in 1..Len(t) |->
            IF i \in rows /\ t[i].version = prev_version
            THEN [t[i] EXCEPT !.end_time = at]
            ELSE t[i]]

\* DataFrameIndex.insert: the outcome of the call on table t at instant `at`
IndexInsert(t, symbol, date, at) ==
    LET rows == RowsOf(t, symbol, date)
        exists == rows # {}
        version == IF exists THEN t[Last(rows)].version + 1 ELSE 0
        start_time == IF exists THEN at ELSE start_as_of
        write_path == create_write_path(date, symbol, version)
        updated == IF exists THEN EndVersion(t, symbol, date, at) ELSE t
        new_index_row == [symbol |-> symbol, date |-> date,
                          start_time |-> start_time, end_time |-> latest_as_of,
                          version |-> version, path |-> write_path]
    IN IF exists /\ ~CanUpdate(t, symbol, date)
       THEN [ok |-> FALSE, df |-> t, version |-> version, path |-> write_path]
       ELSE [ok |-> TRUE,
             df |-> DropDuplicated(Append(updated, new_index_row)),
             version |-> version, path |-> write_path]

\* DataFrameIndex.delete
IndexDelete(t, symbol, date, at) ==
    IF RowsOf(t, symbol, date) = {} THEN [ok |-> TRUE, df |-> t]
    ELSE IF ~CanUpdate(t, symbol, date) THEN [ok |-> FALSE, df |-> t]
    ELSE [ok |-> TRUE, df |-> EndVersion(t, symbol, date, at)]

\* DataFrameIndex.select: the rows of the symbol with a date in [start, end]
\* that are valid at as_of_time, in table order
IndexSelect(t, symbol, start, end, as_of_time) ==
    SelectSeq(t, LAMBDA row :
        /\ row.symbol = symbol
        /\ row.date >= start
        /\ row.date <= end
        /\ row.start_time <= as_of_time
        /\ row.end_time >= as_of_time)

OpRecord(op, symbol, date, ok, existed, version, path) ==
    [op |-> op, symbol |-> symbol, date |-> date, ok |-> ok,
     existed |-> existed, version |-> version, path |-> path, time |-> now]

\* what is remembered of the call before the last one
Brief(o) == [op |-> o.op, symbol |-> o.symbol, date |-> o.date, ok |-> o.ok,
             existed |-> o.existed]

\* LocalTickstore.__init__ on a directory without an index side-file
StoreInit ==
    \E paths \in SUBSET BootPaths :
      \E scan \in ScanOrders(paths) :
        LET dir == [p \in paths |-> "b0"]
        IN /\ df = BootIndex(scan)
           /\ files = BootFiles(dir, scan)
           /\ index_h5 = BootIndex(scan)
           /\ closed = FALSE
           /\ now = 1
           /\ nOps = 0
           /\ lastOp = NoOp
           /\ prevOp = NoPrev
           /\ written = {}
           /\ raised = ""
           /\ lastSelect = NoSelect

\* LocalTickstore._check_closed that lets a select through
check_closed_mutating(operation) == closed /\ operation # "select"

\* LocalTickstore._check_closed: the operation raises while the store is closed
check_closed(operation) == closed

\* LocalTickstore.insert
StoreInsert(symbol, date, batch) ==
    /\ nOps < MaxOps
    /\ nOps' = nOps + 1
    /\ prevOp' = Brief(lastOp)
    /\ LET r == IndexInsert(df, symbol, date, now)
           existed == RowsOf(df, symbol, date) # {}
       IN IF check_closed("insert") \/ ~r.ok
          THEN /\ lastOp' = OpRecord("insert", symbol, date, FALSE, existed,
                                     r.version, NoPath)
               /\ raised' = IF check_closed("insert") THEN "Exception"
                             ELSE "ValueError"
               /\ UNCHANGED <<df, files, written>>
          ELSE /\ df' = r.df
               /\ raised' = ""
               /\ written' = written \cup {r.path}
               /\ files' = [p \in DOMAIN files \cup {r.path} |->
                               IF p = r.path THEN batch ELSE files[p]]
               /\ lastOp' = OpRecord("insert", symbol, date, TRUE, existed,
                                     r.version, r.path)
    /\ lastSelect' = NoSelect
    /\ UNCHANGED <<index_h5, closed, now>>
    /\ UNCHANGED notStore

\* LocalTickstore.delete
StoreDelete(symbol, date) ==
    /\ nOps < MaxOps
    /\ nOps' = nOps + 1
    /\ prevOp' = Brief(lastOp)
    /\ LET r == IndexDelete(df, symbol, date, now)
           existed == RowsOf(df, symbol, date) # {}
       IN IF check_closed("delete") \/ ~r.ok
          THEN /\ lastOp' = OpRecord("delete", symbol, date, FALSE, existed,
                                     0, NoPath)
               /\ raised' = IF check_closed("delete") THEN "Exception"
                             ELSE "ValueError"
               /\ UNCHANGED df
          ELSE /\ df' = r.df
               /\ raised' = ""
               /\ lastOp' = OpRecord("delete", symbol, date, TRUE, existed,
                                     0, NoPath)
    /\ lastSelect' = NoSelect
    /\ UNCHANGED <<files, index_h5, closed, now, written>>
    /\ UNCHANGED notStore

\* pd.read_hdf(row['path'])
read_hdf(fs, path) == Ticks(fs[path])

\* pd.concat(loaded_dfs), the splays in the order of the selected index rows
concat(fs, selected) ==
    LET F[i \in 0..Len(selected)] ==
            IF i = 0 THEN <<>>
            ELSE F[i - 1] \o read_hdf(fs, selected[i].path)
    IN F[Len(selected)]

\* all_ticks.loc[time_mask] without the lower limit of the range
time_mask_end_only(all_ticks, start, end) ==
    SelectSeq(all_ticks, LAMBDA ts : ts <= end)

\* all_ticks.loc[time_mask]: the ticks stamped within [start, end]
time_mask(all_ticks, start, end) ==
    SelectSeq(all_ticks, LAMBDA ts : ts >= start /\ ts <= end)

\* selected_ticks.sort_index()
sort_index(ticks) == SortSeq(ticks, LAMBDA a, b : a < b)

\* LocalTickstore.select
StoreSelect(symbol, start, end, as_of_time) ==
    /\ nOps < MaxOps
    /\ nOps' = nOps + 1
    /\ prevOp' = Brief(lastOp)
    /\ LET selected == IndexSelect(df, symbol, start, end, as_of_time)
           found == \A i \in 1..Len(selected) : selected[i].path \in DOMAIN files
           call == [symbol |-> symbol, start |-> start, end |-> end,
                    as_of_time |-> as_of_time, returned |-> FALSE,
                    matched |-> 0, ticks |-> <<>>]
       IN IF check_closed("select")
          THEN /\ raised' = "Exception"
               /\ lastSelect' = call
          ELSE IF ~found
          THEN /\ raised' = "FileNotFoundError"
               /\ lastSelect' = [call EXCEPT !.matched = Len(selected)]
          ELSE /\ raised' = ""
               /\ lastSelect' = [call EXCEPT
                              !.returned = TRUE,
                              !.matched = Len(selected),
                              !.ticks = IF selected = <<>> THEN <<>>
                                        ELSE sort_index(time_mask(
                                                 concat(files, selected),
                                                 start, end))]
    /\ lastOp' = OpRecord("select", symbol, 0, raised' = "", FALSE, 0, NoPath)
    /\ UNCHANGED <<df, files, index_h5, closed, now, written>>
    /\ UNCHANGED notStore

\* the base directory of the store exists
base_path_exists == index_h5 # NoIndexFile \/ DOMAIN files # {}

\* LocalTickstore.destroy
StoreDestroy ==
    /\ nOps < MaxOps
    /\ nOps' = nOps + 1
    /\ prevOp' = Brief(lastOp)
    /\ lastOp' = OpRecord("destroy", "", 0, TRUE, FALSE, 0, NoPath)
    /\ raised' = ""
    /\ lastSelect' = NoSelect
    /\ IF base_path_exists
       THEN files' = [p \in {} |-> "b0"] /\ index_h5' = NoIndexFile
       ELSE UNCHANGED <<files, index_h5>>
    /\ UNCHANGED <<df, closed, now, written>>
    /\ UNCHANGED notStore

\* LocalTickstore.close: DataFrameIndex.flush writes the side-file into the
\* base directory and fails when that directory is gone
StoreClose ==
    /\ nOps < MaxOps
    /\ nOps' = nOps + 1
    /\ prevOp' = Brief(lastOp)
    /\ lastSelect' = NoSelect
    /\ IF closed
       THEN /\ raised' = ""
            /\ UNCHANGED <<index_h5, closed>>
       ELSE IF ~base_path_exists
       THEN /\ raised' = "OSError"
            /\ UNCHANGED <<index_h5, closed>>
       ELSE /\ raised' = ""
            /\ index_h5' = df
            /\ closed' = TRUE
    /\ lastOp' = OpRecord("close", "", 0, raised' = "", FALSE, 0, NoPath)
    /\ UNCHANGED <<df, files, now, written>>
    /\ UNCHANGED notStore

\* the index side-file of a closed store is lost
IndexLost ==
    /\ closed
    /\ index_h5 # NoIndexFile
    /\ index_h5' = NoIndexFile
    /\ UNCHANGED <<df, files, closed, now, nOps, lastOp, prevOp, written,
                   raised, lastSelect>>
    /\ UNCHANGED notStore

\* LocalTickstore.__init__ by a new process on the directory of a closed
\* store: DataFrameIndex.__init__ reads the index side-file, or bootstraps the
\* index from the splay files when there is none
StoreOpen ==
    /\ nOps < MaxOps
    /\ closed
    /\ nOps' = nOps + 1
    /\ prevOp' = Brief(lastOp)
    /\ lastOp' = OpRecord("open", "", 0, TRUE, index_h5 # NoIndexFile, 0, NoPath)
    /\ raised' = ""
    /\ lastSelect' = NoSelect
    /\ closed' = FALSE
    /\ IF index_h5 # NoIndexFile
       THEN /\ df' = index_h5
            /\ UNCHANGED <<files, index_h5>>
       ELSE \E scan \in ScanOrders(DOMAIN files) :
               /\ df' = BootIndex(scan)
               /\ files' = BootFiles(files, scan)
               /\ index_h5' = BootIndex(scan)
    /\ UNCHANGED <<now, written>>
    /\ UNCHANGED notStore

\* the wall clock advances between two calls
ClockTick ==
    /\ now < MaxNow
    /\ now' = now + 1
    /\ UNCHANGED <<df, files, index_h5, closed, nOps, lastOp, prevOp, written,
                   raised, lastSelect>>
    /\ UNCHANGED notStore

(***************************************************************************)
(* Part 2 - journal.py                                                     *)
(***************************************************************************)
\* Python's None, for JournalAppender.current_date and JournalAppender.mm
None == 0
\* JournalAppender.start_pos before the first mapping: the constructor
\* assigns start_post, so start_pos does not exist until _get_current_mmap
Unset == -1

Days == 1..MaxDay

\* the values the appender calls are made with
ByteValues == {65, -1}
BooleanValues == {TRUE}
ShortValues == {258}
IntValues == {-2}
LongValues == {3}
FloatValues == {"0.1"}
DoubleValues == {"1.5"}
\* strings are sequences of code points: "B" and "BeC" with e-acute (U+00E9)
StringValues == {<<66>>, <<66, 233, 67>>}

\* the n bytes of the two's-complement integer v, least significant first
\* (struct.pack with a native format on a little-endian machine)
RECURSIVE LittleEndian(_, _)
LittleEndian(v, n) ==
    IF n = 0 THEN <<>> ELSE <<v % 256>> \o LittleEndian(v \div 256, n - 1)

\* struct.pack('h' / 'i' / 'q', value)
pack_short(value) == LittleEndian(value, 2)
pack_int(value) == LittleEndian(value, 4)
pack_long(value) == LittleEndian(value, 8)

\* struct.pack('f', value): the IEEE-754 binary32 nearest to the value
pack_float(value) ==
    CASE value = "0.1" -> <<205, 204, 204, 61>>
      [] value = "1.5" -> <<0, 0, 192, 63>>
      [] value = "2.0" -> <<0, 0, 0, 64>>

\* struct.pack('d', value): the IEEE-754 binary64 of the value
pack_double(value) ==
    CASE value = "0.1" -> <<154, 153, 153, 153, 153, 153, 185, 63>>
      [] value = "1.5" -> <<0, 0, 0, 0, 0, 0, 248, 63>>
      [] value = "2.0" -> <<0, 0, 0, 0, 0, 0, 0, 64>>

\* str.encode(): UTF-8 of code points below U+0800
RECURSIVE encode(_)
encode(value) ==
    IF value = <<>> THEN <<>>
    ELSE LET cp == Head(value)
         IN (IF cp < 128 THEN <<cp>>
             ELSE <<192 + (cp \div 64), 128 + (cp % 64)>>) \o encode(Tail(value))

\* the signed integer held by little-endian bytes (struct.unpack 'h', 'i', 'q')
RECURSIVE unpack_signed(_)
unpack_signed(bytes) ==
    IF Len(bytes) = 1
    THEN (IF bytes[1] >= 128 THEN bytes[1] - 256 ELSE bytes[1])
    ELSE bytes[1] + 256 * unpack_signed(Tail(bytes))

\* mm[from:to]
Slice(mm, from, to) == [i \in 1..(to - from) |-> mm[from + i - 1]]

\* mm[pos:pos + len(bytes)] = bytes
Poke(mm, pos, bytes) ==
    [i \in DOMAIN mm |->
        IF i >= pos /\ i < pos + Len(bytes) THEN bytes[i - pos + 1] ELSE mm[i]]

\* Journal._get_mmap(date, 'a+b'): a file that does not exist is created and
\* zero-filled over max_size bytes, an existing file is mapped as it is
Journal_get_mmap(fs, date) ==
    IF date \in DOMAIN fs THEN fs
    ELSE [d \in DOMAIN fs \cup {date} |->
             IF d = date THEN [i \in 0..(max_size - 1) |-> 0] ELSE fs[d]]

\* JournalReader.get_length on the bytes of a day file
get_length(mm) == -unpack_signed(Slice(mm, 0, 4)) - 1

\* JournalAppender.__init__
NewAppender ==
    [pos |-> 4, start_pos |-> Unset, current_date |-> None, mm |-> None,
     wrote |-> 0]

\* JournalAppender._advance
advance(pos, num_bytes) == pos + num_bytes

\* close() storing the length itself in the header, not its complement
close_plain_length(a, fs) ==
    IF a.mm # None
    THEN LET length == a.pos - a.start_pos
         IN [ap |-> [a EXCEPT !.mm = None],
             fs |-> [fs EXCEPT ![a.mm] = Poke(@, 0, pack_int(length))]]
    ELSE [ap |-> a, fs |-> fs]

\* JournalAppender.close
close(a, fs) ==
    IF a.mm # None
    THEN LET length == a.pos - a.start_pos
         IN [ap |-> [a EXCEPT !.mm = None],
             fs |-> [fs EXCEPT ![a.mm] = Poke(@, 0, pack_int(-length - 1))]]
    ELSE [ap |-> a, fs |-> fs]

\* JournalAppender._get_current_mmap when utcnow().date() is now_date
get_current_mmap(a, fs, now_date) ==
    IF a.current_date # now_date
    THEN LET c == close(a, fs)
         IN [ap |-> [c.ap EXCEPT !.current_date = now_date, !.pos = 4,
                                 !.start_pos = 4, !.mm = now_date, !.wrote = 0],
             fs |-> Journal_get_mmap(c.fs, now_date)]
    ELSE [ap |-> a, fs |-> fs]

\* JournalAppender._check_space raises
no_space(a, add_length) == a.pos + add_length >= max_size

Raise(m, error) == [ap |-> m.ap, fs |-> m.fs, out |-> error]

\* mm[self.pos:self.pos + val_sz] = bytes; self._advance(val_sz)
Store(m, bytes) ==
    [ap |-> [m.ap EXCEPT !.pos = advance(@, Len(bytes)),
                         !.wrote = @ + Len(bytes)],
     fs |-> [m.fs EXCEPT ![m.ap.mm] = Poke(@, m.ap.pos, bytes)],
     out |-> "ok"]

\* write_short, write_int, write_long, write_float, write_double: the space
\* check, then the mapping of the day, then the slice assignment (which
\* raises on None and on a slice that runs past the mapping)
write_fixed(a, fs, now_date, bytes) ==
    IF no_space(a, Len(bytes))
    THEN Raise([ap |-> a, fs |-> fs], "NoSpaceException")
    ELSE LET m == get_current_mmap(a, fs, now_date)
         IN IF m.ap.mm = None THEN Raise(m, "TypeError")
            ELSE IF m.ap.pos + Len(bytes) > max_size THEN Raise(m, "IndexError")
            ELSE Store(m, bytes)

write_short(a, fs, now_date, value) == write_fixed(a, fs, now_date, pack_short(value))
write_int(a, fs, now_date, value) == write_fixed(a, fs, now_date, pack_int(value))
write_long(a, fs, now_date, value) == write_fixed(a, fs, now_date, pack_long(value))
write_float(a, fs, now_date, value) == write_fixed(a, fs, now_date, pack_float(value))
write_double(a, fs, now_date, value) == write_fixed(a, fs, now_date, pack_double(value))

\* JournalAppender.write_byte: an mmap item takes a value of 0..255 only
write_byte(a, fs, now_date, value) ==
    IF value >= 256 THEN Raise([ap |-> a, fs |-> fs], "AssertionError")
    ELSE IF no_space(a, 1)
    THEN Raise([ap |-> a, fs |-> fs], "NoSpaceException")
    ELSE LET m == get_current_mmap(a, fs, now_date)
         IN IF m.ap.mm = None THEN Raise(m, "TypeError")
            ELSE IF value \notin 0..255 THEN Raise(m, "ValueError")
            ELSE Store(m, <<value>>)

\* JournalAppender.write_boolean
write_boolean(a, fs, now_date, value) ==
    write_byte(a, fs, now_date, IF value THEN 1 ELSE 0)

\* the loop of JournalAppender._write_stopbit on the mapping of m
RECURSIVE stopbit_loop(_, _)
stopbit_loop(m, value) ==
    IF m.ap.pos >= max_size THEN Raise(m, "IndexError")
    ELSE IF value > 127
    THEN stopbit_loop(Store(m, <<128 + (value % 128)>>), value \div 128)
    ELSE Store(m, <<value>>)

\* JournalAppender._write_stopbit
write_stopbit(a, fs, now_date, value) ==
    IF value < 0 THEN Raise([ap |-> a, fs |-> fs], "ValueError")
    ELSE LET m == get_current_mmap(a, fs, now_date)
         IN IF m.ap.mm = None THEN Raise(m, "TypeError")
            ELSE stopbit_loop(m, value)

\* JournalAppender.write_string (the clock is read as one date over the call)
write_string(a, fs, now_date, value) ==
    LET encoded == encode(value)
        val_sz == Len(encoded)
        sb == write_stopbit(a, fs, now_date, val_sz)
    IN IF sb.out # "ok" THEN sb
       ELSE IF no_space(sb.ap, val_sz) THEN Raise(sb, "NoSpaceException")
       ELSE LET m == get_current_mmap(sb.ap, sb.fs, now_date)
            IN IF m.ap.pos + val_sz > max_size THEN Raise(m, "IndexError")
               ELSE Store(m, encoded)

Max(x, y) == IF x >= y THEN x ELSE y

WithEntry(f, k, v) == [x \in DOMAIN f \cup {k} |-> IF x = k THEN v ELSE f[x]]
WithoutEntry(f, k) == [x \in DOMAIN f \ {k} |-> f[x]]

\* the day files finalized and re-opened by a call that took a to r.ap
Finalized(a, r) ==
    LET f1 == IF a.mm # None /\ r.ap.mm # a.mm
              THEN WithEntry(finalizedLen, a.mm, a.wrote) ELSE finalizedLen
    IN IF r.ap.mm # None /\ r.ap.mm # a.mm THEN WithoutEntry(f1, r.ap.mm) ELSE f1

\* the end of the stored bytes of each day file after a call
Extent(r) ==
    IF r.ap.mm = None THEN extent
    ELSE WithEntry(extent, r.ap.mm,
                   Max(r.ap.pos, IF r.ap.mm \in DOMAIN extent
                                 THEN extent[r.ap.mm] ELSE 4))

NoCall == [op |-> "none", out |-> "", bytes |-> <<>>, valid |-> FALSE, day |-> 0]

\* a journal nobody uses (the state of the journal while the store is used)
JournalIdle ==
    /\ max_size = 0
    /\ jfiles = <<>>
    /\ ap = NewAppender
    /\ today = 1
    /\ finalizedLen = <<>>
    /\ extent = <<>>
    /\ jOps = 0
    /\ jLast = NoCall

\* Journal.__init__ and Journal.create_appender
JournalInit ==
    /\ max_size = JournalSize
    /\ jfiles = <<>>
    /\ ap = NewAppender
    /\ today = 1
    /\ finalizedLen = <<>>
    /\ extent = <<>>
    /\ jOps = 0
    /\ jLast = NoCall

\* a tickstore nobody uses
StoreIdle ==
    /\ df = <<>> /\ files = <<>> /\ index_h5 = <<>> /\ closed = FALSE
    /\ now = 1 /\ nOps = 0 /\ lastOp = NoOp /\ prevOp = NoPrev /\ written = {}
    /\ raised = "" /\ lastSelect = NoSelect

\* one appender call with result r; bytes is the encoding of its value
Call(op, r, bytes, valid) ==
    /\ jOps < MaxJOps
    /\ jOps' = jOps + 1
    /\ ap' = r.ap
    /\ jfiles' = r.fs
    /\ finalizedLen' = Finalized(ap, r)
    /\ extent' = Extent(r)
    /\ jLast' = [op |-> op, out |-> r.out, bytes |-> bytes, valid |-> valid,
                 day |-> today]
    /\ UNCHANGED <<max_size, today>>
    /\ UNCHANGED notJournal

WriteByte(value) ==
    Call("write_byte", write_byte(ap, jfiles, today, value),
         <<value % 256>>, value \in 0..255)
WriteBoolean(value) ==
    Call("write_boolean", write_boolean(ap, jfiles, today, value),
         <<IF value THEN 1 ELSE 0>>, TRUE)
WriteShort(value) ==
    Call("write_short", write_short(ap, jfiles, today, value),
         pack_short(value), TRUE)
WriteInt(value) ==
    Call("write_int", write_int(ap, jfiles, today, value), pack_int(value), TRUE)
WriteLong(value) ==
    Call("write_long", write_long(ap, jfiles, today, value), pack_long(value), TRUE)
WriteFloat(value) ==
    Call("write_float", write_float(ap, jfiles, today, value),
         pack_float(value), TRUE)
WriteDouble(value) ==
    Call("write_double", write_double(ap, jfiles, today, value),
         pack_double(value), TRUE)
WriteString(value) ==
    Call("write_string", write_string(ap, jfiles, today, value),
         <<Len(encode(value))>> \o encode(value), TRUE)

\* JournalAppender.close()
AppenderClose ==
    LET c == close(ap, jfiles)
    IN Call("close", [ap |-> c.ap, fs |-> c.fs, out |-> "ok"], <<>>, TRUE)

\* the process ends (with or without close) and a new one calls
\* journal.create_appender()
Restart ==
    /\ jOps < MaxJOps
    /\ jOps' = jOps + 1
    /\ ap' = NewAppender
    /\ jLast' = [op |-> "restart", out |-> "ok", bytes |-> <<>>, valid |-> TRUE,
                 day |-> today]
    /\ UNCHANGED <<max_size, jfiles, today, finalizedLen, extent>>
    /\ UNCHANGED notJournal

\* midnight UTC passes
DayTick ==
    /\ today < MaxDay
    /\ today' = today + 1
    /\ UNCHANGED <<max_size, jfiles, ap, finalizedLen, extent, jOps, jLast>>
    /\ UNCHANGED notJournal

(***************************************************************************)
(* Part 3 - coinbase.py (the feed) and scheduler.py (the upload job)       *)
(***************************************************************************)
\* the match messages of the feed; size and price arrive as decimal strings
Msgs ==
    { [sequence |-> 1, trade_id |-> 7, product_id |-> <<66>>, side |-> "buy",
       size |-> "1.5", price |-> "0.1"],
      [sequence |-> 2, trade_id |-> 8, product_id |-> <<66, 233>>, side |-> "sell",
       size |-> "0.1", price |-> "1.5"] }

\* the values of datetime.utcnow().timestamp()
TimeValues == {"2.0"}

NoMsg == [sequence |-> 0, trade_id |-> 0, product_id |-> <<>>, side |-> "",
          size |-> "", price |-> "", time |-> ""]

\* the k-th appender call of CoinbaseProSubscriber._on_message for a match
FieldWrite(k, msg, a, fs, now_date) ==
    CASE k = 1 -> write_double(a, fs, now_date, msg.time)
      [] k = 2 -> write_long(a, fs, now_date, msg.sequence)
      [] k = 3 -> write_long(a, fs, now_date, msg.trade_id)
      [] k = 4 -> write_string(a, fs, now_date, msg.product_id)
      [] k = 5 -> write_short(a, fs, now_date, IF msg.side = "buy" THEN 1 ELSE 0)
      [] k = 6 -> write_double(a, fs, now_date, msg.size)
      [] k = 7 -> write_double(a, fs, now_date, msg.price)

\* the decoders of JournalReader
unpack_double(bytes) ==
    IF \E v \in {"0.1", "1.5", "2.0"} : pack_double(v) = bytes
    THEN CHOOSE v \in {"0.1", "1.5", "2.0"} : pack_double(v) = bytes
    ELSE "other"

\* bytes.decode(): code points of UTF-8 sequences of one or two bytes
decode(bytes) ==
    LET n == Len(bytes)
        D[i \in 1..(n + 1)] ==
            IF i > n THEN <<>>
            ELSE IF bytes[i] < 128 THEN <<bytes[i]>> \o D[i + 1]
            ELSE IF i < n /\ bytes[i] \in 194..223 /\ bytes[i + 1] \in 128..191
            THEN <<(bytes[i] - 192) * 64 + (bytes[i + 1] - 128)>> \o D[i + 2]
            ELSE <<-1>>
    IN D[1]

\* 2^n
RECURSIVE Pow2(_)
Pow2(n) == IF n = 0 THEN 1 ELSE 2 * Pow2(n - 1)

\* JournalReader._read_stopbit at offset: the value and the offset after it
RECURSIVE read_stopbit(_, _, _, _)
read_stopbit(mm, offset, shift, value) ==
    LET b == mm[offset]
        v == value + (b % 128) * Pow2(shift)
    IN IF b < 128 THEN [value |-> v, offset |-> offset + 1]
       ELSE read_stopbit(mm, offset + 1, shift + 7, v)

\* JournalReader.read_string at offset
read_string(mm, offset) ==
    LET sb == read_stopbit(mm, offset, 0, 0)
    IN [value |-> decode(Slice(mm, sb.offset, sb.offset + sb.value)),
        offset |-> sb.offset + sb.value]

\* upload_ticks_daily: one pass of the loop body, from offset
read_record(mm, offset) ==
    LET time == unpack_double(Slice(mm, offset, offset + 8))
        sequence == unpack_signed(Slice(mm, offset + 8, offset + 16))
        trade_id == unpack_signed(Slice(mm, offset + 16, offset + 24))
        product == read_string(mm, offset + 24)
        side == IF unpack_signed(Slice(mm, product.offset, product.offset + 2)) = 0
                THEN "buy" ELSE "sell"
        size == unpack_double(Slice(mm, product.offset + 2, product.offset + 10))
        price == unpack_double(Slice(mm, product.offset + 10, product.offset + 18))
    IN [record |-> [time |-> time, sequence |-> sequence, trade_id |-> trade_id,
                    product_id |-> product.value, side |-> side,
                    size |-> size, price |-> price],
        offset |-> product.offset + 18]

\* upload_ticks_daily: the records list built from a day file
RECURSIVE read_records(_, _, _)
read_records(mm, offset, length) ==
    IF offset < length
    THEN LET r == read_record(mm, offset)
         IN <<r.record>> \o read_records(mm, r.offset, length)
    ELSE <<>>

replay(mm) == read_records(mm, 4, get_length(mm))

FeedIdle ==
    /\ fpc = 0 /\ fmsg = NoMsg /\ sent = <<>>

\* no JournalReader yet
NoReader == [mm |-> None, offset |-> 4]
NoRead == [op |-> "none", out |-> "", value |-> 0, text |-> "", from |-> 0]
NoStopbit == [value |-> 0, pos |-> 0]

ReaderIdle ==
    /\ rd = NoReader /\ rLast = NoRead /\ sbArg = NoStopbit

\* no close() call yet
NoClose == [calls |-> 0, out |-> ""]

\* a subscriber that holds its appender and has started no connect()
SubscriberInit ==
    /\ appender = TRUE /\ ws = None /\ coros = <<>> /\ conns = <<>>
    /\ published = 0 /\ sLast = NoClose

\* subscribe_coinbase_trades: a journal and a subscriber with its appender
FeedInit ==
    /\ max_size = FeedSize
    /\ jfiles = <<>>
    /\ ap = NewAppender
    /\ today = 1
    /\ finalizedLen = <<>>
    /\ extent = <<>>
    /\ jOps = 0
    /\ jLast = NoCall
    /\ FeedIdle

\* one appender call of _on_message with result r
FeedCall(r, k) ==
    /\ ap' = r.ap
    /\ jfiles' = r.fs
    /\ finalizedLen' = Finalized(ap, r)
    /\ extent' = Extent(r)
    /\ fpc' = IF r.out = "ok" /\ k < 7 THEN k + 1 ELSE 0
    /\ UNCHANGED <<max_size, today, jOps, jLast>>
    /\ UNCHANGED <<storeVars, readerVars, subVars>>

\* CoinbaseProSubscriber._on_message for a match message: its first write
OnMessage(msg, time) ==
    /\ fpc = 0
    /\ Len(sent) < MaxMsgs
    /\ LET m == [sequence |-> msg.sequence, trade_id |-> msg.trade_id,
                 product_id |-> msg.product_id, side |-> msg.side,
                 size |-> msg.size, price |-> msg.price, time |-> time]
           r == FieldWrite(1, m, ap, jfiles, today)
       IN /\ FeedCall(r, 1)
          /\ fmsg' = m
          /\ sent' = Append(sent, [msg |-> m, day |-> today, whole |-> TRUE,
                                   done |-> FALSE, failed |-> r.out # "ok"])

\* CoinbaseProSubscriber._on_message: the next write of the message
OnMessageStep ==
    /\ fpc \in 2..7
    /\ LET r == FieldWrite(fpc, fmsg, ap, jfiles, today)
           n == Len(sent)
       IN /\ FeedCall(r, fpc)
          /\ fmsg' = fmsg
          /\ sent' = [sent EXCEPT ![n] =
                        [@ EXCEPT !.whole = @ /\ today = sent[n].day,
                                  !.done = r.out = "ok" /\ fpc = 7,
                                  !.failed = r.out # "ok"]]

FeedNext ==
    \/ \E msg \in Msgs, time \in TimeValues : OnMessage(msg, time)
    \/ OnMessageStep
    \/ DayTick

\* the feed alone: the tickstore is not used
InitFeed == FeedInit /\ StoreIdle /\ ReaderIdle /\ SubscriberInit

SpecFeed == InitFeed /\ [][FeedNext]_vars

JournalNext ==
    \/ \E value \in ByteValues : WriteByte(value)
    \/ \E value \in BooleanValues : WriteBoolean(value)
    \/ \E value \in ShortValues : WriteShort(value)
    \/ \E value \in IntValues : WriteInt(value)
    \/ \E value \in LongValues : WriteLong(value)
    \/ \E value \in FloatValues : WriteFloat(value)
    \/ \E value \in DoubleValues : WriteDouble(value)
    \/ \E value \in StringValues : WriteString(value)
    \/ AppenderClose
    \/ Restart
    \/ DayTick

\* the journal alone, under calls of its appender
InitJournal == JournalInit /\ StoreIdle /\ FeedIdle /\ ReaderIdle /\ SubscriberInit

SpecJournal == InitJournal /\ [][JournalNext]_vars

\* the day file an earlier process left behind: it wrote one byte on day 1
\* and closed its appender
EarlierRun ==
    LET w == write_byte(NewAppender, <<>>, 1, 65)
    IN close(w.ap, w.fs).fs

\* Journal.__init__ and Journal.create_appender on the directory of an
\* earlier run
InitReopen ==
    /\ max_size = JournalSize
    /\ jfiles = EarlierRun
    /\ ap = NewAppender
    /\ today = 1
    /\ finalizedLen = [d \in {1} |-> 1]
    /\ extent = [d \in {1} |-> 5]
    /\ jOps = 0
    /\ jLast = NoCall
    /\ StoreIdle
    /\ FeedIdle
    /\ ReaderIdle
    /\ SubscriberInit

SpecReopen == InitReopen /\ [][JournalNext]_vars

(***************************************************************************)
(* Part 4 - journal.py: JournalReader and the stop-bit codec               *)
(***************************************************************************)
\* the values _write_stopbit is called with
StopbitValues == {0, 127, 128, 16384, 2147483647, -1}

\* struct.unpack('f', bytes), widened to a Python float
unpack_float(bytes) ==
    CASE bytes = <<205, 204, 204, 61>> -> "0.10000000149011612"
      [] bytes = <<0, 0, 192, 63>> -> "1.5"
      [] bytes = <<0, 0, 0, 64>> -> "2.0"
      [] OTHER -> "other"

\* the position a write of appender a begins at when utcnow().date() is
\* now_date (a rollover sets it back to 4)
write_pos(a, now_date) == IF a.current_date # now_date THEN 4 ELSE a.pos

\* a direct call of JournalAppender._write_stopbit
WriteStopbit(value) ==
    /\ jOps < MaxJOps
    /\ jOps' = jOps + 1
    /\ LET r == write_stopbit(ap, jfiles, today, value)
       IN /\ ap' = r.ap
          /\ jfiles' = r.fs
          /\ finalizedLen' = Finalized(ap, r)
          /\ extent' = Extent(r)
          /\ jLast' = [op |-> "write_stopbit", out |-> r.out,
                       bytes |-> IF r.out = "ok"
                                 THEN Slice(r.fs[r.ap.mm], write_pos(ap, today),
                                            r.ap.pos)
                                 ELSE <<>>,
                       valid |-> value >= 0, day |-> today]
    /\ sbArg' = [value |-> value, pos |-> write_pos(ap, today)]
    /\ UNCHANGED <<max_size, today, rd, rLast>>
    /\ UNCHANGED <<storeVars, feedVars, subVars>>

\* JournalReader._advance
reader_advance(offset, step) == offset + step

\* the outcome of a JournalReader call that raises: the reader stays as r
ReadRaise(r, error) == [out |-> error, value |-> 0, text |-> "", rd |-> r]

\* JournalReader.read_byte: mm[self.offset] is an unsigned byte, and raises
\* IndexError at the end of the mapping
read_byte(r, fs) ==
    IF r.offset >= max_size THEN ReadRaise(r, "IndexError")
    ELSE [out |-> "ok", value |-> fs[r.mm][r.offset], text |-> "",
          rd |-> [r EXCEPT !.offset = reader_advance(@, 1)]]

\* JournalReader.read_boolean
read_boolean(r, fs) ==
    LET b == read_byte(r, fs)
    IN IF b.out # "ok" THEN b
       ELSE [b EXCEPT !.value = IF b.value # 0 THEN 1 ELSE 0]

\* mm[offset:offset + val_sz] of a JournalReader read: the slice is cut at the
\* end of the mapping, and struct.unpack raises on a short slice
read_slice(r, fs, val_sz) ==
    IF r.offset + val_sz > max_size THEN <<>>
    ELSE Slice(fs[r.mm], r.offset, r.offset + val_sz)

\* JournalReader.read_short and read_int
read_signed(r, fs, val_sz) ==
    LET bytes == read_slice(r, fs, val_sz)
    IN IF bytes = <<>> THEN ReadRaise(r, "struct.error")
       ELSE [out |-> "ok", value |-> unpack_signed(bytes), text |-> "",
             rd |-> [r EXCEPT !.offset = reader_advance(@, val_sz)]]

read_short(r, fs) == read_signed(r, fs, 2)
read_int(r, fs) == read_signed(r, fs, 4)

\* JournalReader.read_long: the value when it fits 32 bits, else the text
\* "wide"
read_long(r, fs) ==
    LET bytes == read_slice(r, fs, 8)
        low == SubSeq(bytes, 1, 4)
        high == SubSeq(bytes, 5, 8)
        fits == \/ bytes[4] < 128 /\ high = <<0, 0, 0, 0>>
                \/ bytes[4] >= 128 /\ high = <<255, 255, 255, 255>>
    IN IF bytes = <<>> THEN ReadRaise(r, "struct.error")
       ELSE [out |-> "ok",
             value |-> IF fits THEN unpack_signed(low) ELSE 0,
             text |-> IF fits THEN "" ELSE "wide",
             rd |-> [r EXCEPT !.offset = reader_advance(@, 8)]]

\* JournalReader.read_float
read_float(r, fs) ==
    LET bytes == read_slice(r, fs, 4)
    IN IF bytes = <<>> THEN ReadRaise(r, "struct.error")
       ELSE [out |-> "ok", value |-> 0, text |-> unpack_float(bytes),
             rd |-> [r EXCEPT !.offset = reader_advance(@, 4)]]

\* JournalReader.read_double
read_double(r, fs) ==
    LET bytes == read_slice(r, fs, 8)
    IN IF bytes = <<>> THEN ReadRaise(r, "struct.error")
       ELSE [out |-> "ok", value |-> 0, text |-> unpack_double(bytes),
             rd |-> [r EXCEPT !.offset = reader_advance(@, 8)]]

\* the offset of the first byte at or after offset without the continuation
\* bit, max_size when there is none
RECURSIVE stop_offset(_, _)
stop_offset(mm, offset) ==
    IF offset >= max_size THEN max_size
    ELSE IF mm[offset] < 128 THEN offset
    ELSE stop_offset(mm, offset + 1)

\* _read_stopbit that leaves the offset on the last byte of the value
reader_read_stopbit_short(r, fs) ==
    LET mm == fs[r.mm]
        stop == stop_offset(mm, r.offset)
        fits == stop - r.offset < 4 \/ (stop - r.offset = 4 /\ mm[stop] <= 7)
    IN IF stop >= max_size
       THEN ReadRaise([r EXCEPT !.offset = max_size], "IndexError")
       ELSE [out |-> "ok",
             value |-> IF fits THEN read_stopbit(mm, r.offset, 0, 0).value ELSE 0,
             text |-> IF fits THEN "" ELSE "wide",
             rd |-> [r EXCEPT !.offset = stop]]

\* JournalReader._read_stopbit called on reader r: read_byte raises IndexError
\* when the groups run to the end of the mapping; the value when it fits 32
\* bits, else the text "wide"
reader_read_stopbit(r, fs) ==
    LET mm == fs[r.mm]
        stop == stop_offset(mm, r.offset)
        fits == stop - r.offset < 4 \/ (stop - r.offset = 4 /\ mm[stop] <= 7)
    IN IF stop >= max_size
       THEN ReadRaise([r EXCEPT !.offset = max_size], "IndexError")
       ELSE [out |-> "ok",
             value |-> IF fits THEN read_stopbit(mm, r.offset, 0, 0).value ELSE 0,
             text |-> IF fits THEN "" ELSE "wide",
             rd |-> [r EXCEPT !.offset = stop + 1]]

\* Journal.create_reader(date): the day file is opened 'r+b' and mapped
CreateReader(date) ==
    /\ jOps < MaxJOps
    /\ jOps' = jOps + 1
    /\ IF date \in DOMAIN jfiles
       THEN /\ rd' = [mm |-> date, offset |-> 4]
            /\ rLast' = [op |-> "create_reader", out |-> "ok", value |-> 0,
                         text |-> "", from |-> 4]
       ELSE /\ rd' = rd
            /\ rLast' = [op |-> "create_reader", out |-> "FileNotFoundError",
                         value |-> 0, text |-> "", from |-> 4]
    /\ UNCHANGED <<max_size, jfiles, ap, today, finalizedLen, extent, jLast, sbArg>>
    /\ UNCHANGED <<storeVars, feedVars, subVars>>

\* one JournalReader call with result r
ReadCall(op, r) ==
    /\ jOps < MaxJOps
    /\ jOps' = jOps + 1
    /\ rd' = r.rd
    /\ rLast' = [op |-> op, out |-> r.out, value |-> r.value, text |-> r.text,
                 from |-> rd.offset]
    /\ UNCHANGED <<max_size, jfiles, ap, today, finalizedLen, extent, jLast, sbArg>>
    /\ UNCHANGED <<storeVars, feedVars, subVars>>

ReadByte == rd.mm # None /\ ReadCall("read_byte", read_byte(rd, jfiles))
ReadBoolean == rd.mm # None /\ ReadCall("read_boolean", read_boolean(rd, jfiles))
ReadShort == rd.mm # None /\ ReadCall("read_short", read_short(rd, jfiles))
ReadInt == rd.mm # None /\ ReadCall("read_int", read_int(rd, jfiles))
ReadLong == rd.mm # None /\ ReadCall("read_long", read_long(rd, jfiles))
ReadFloat == rd.mm # None /\ ReadCall("read_float", read_float(rd, jfiles))
ReadDouble == rd.mm # None /\ ReadCall("read_double", read_double(rd, jfiles))
ReadStopbit ==
    rd.mm # None /\ ReadCall("read_stopbit", reader_read_stopbit(rd, jfiles))

\* Journal.__init__ and create_appender on an empty directory or on the
\* directory of an earlier run
InitCodec ==
    /\ max_size = JournalSize
    /\ \E earlier \in BOOLEAN :
          /\ jfiles = IF earlier THEN EarlierRun ELSE <<>>
          /\ finalizedLen = IF earlier THEN [d \in {1} |-> 1] ELSE <<>>
          /\ extent = IF earlier THEN [d \in {1} |-> 5] ELSE <<>>
    /\ ap = NewAppender
    /\ today = 1
    /\ jOps = 0
    /\ jLast = NoCall
    /\ StoreIdle
    /\ FeedIdle
    /\ ReaderIdle
    /\ SubscriberInit

\* an appender and a reader of the same day file
CodecNext ==
    \/ \E value \in StopbitValues : WriteStopbit(value)
    \/ \E value \in ByteValues : WriteByte(value)
    \/ \E value \in ShortValues : WriteShort(value)
    \/ \E value \in IntValues : WriteInt(value)
    \/ \E value \in LongValues : WriteLong(value)
    \/ \E value \in FloatValues : WriteFloat(value)
    \/ \E value \in DoubleValues : WriteDouble(value)
    \/ AppenderClose
    \/ CreateReader(today)
    \/ ReadByte
    \/ ReadBoolean
    \/ ReadShort
    \/ ReadInt
    \/ ReadLong
    \/ ReadFloat
    \/ ReadDouble
    \/ ReadStopbit

SpecCodec == InitCodec /\ [][CodecNext]_vars

StoreNext ==
    \/ \E symbol \in Symbols, date \in Dates, batch \in Batches :
          StoreInsert(symbol, date, batch)
    \/ \E symbol \in Symbols, date \in Dates : StoreDelete(symbol, date)
    \/ \E symbol \in Symbols, range \in Ranges, as_of_time \in AsOfTimes :
          StoreSelect(symbol, range[1], range[2], as_of_time)
    \/ StoreDestroy
    \/ StoreClose
    \/ ClockTick

\* the tickstore alone
InitStore == StoreInit /\ JournalIdle /\ FeedIdle /\ ReaderIdle /\ SubscriberInit

SpecStore == InitStore /\ [][StoreNext]_vars

\* the tickstore opened on a directory that holds at most one splay file
InitLifecycle == InitStore /\ Len(df) <= 1

SpecLifecycle == InitLifecycle /\ [][StoreNext]_vars

\* the tickstore, closed and opened again by later processes
BootNext ==
    \/ StoreNext
    \/ IndexLost
    \/ StoreOpen

SpecBoot == InitStore /\ [][BootNext]_vars


(***************************************************************************)
(* Claims about the tickstore and its index.                               *)
(***************************************************************************)
\* the last two calls were successful inserts of one (symbol, date) that had
\* no row in the index before the first of them
TwoInsertsOfNewKey ==
    /\ lastOp.op = "insert" /\ lastOp.ok
    /\ prevOp.op = "insert" /\ prevOp.ok /\ ~prevOp.existed
    /\ prevOp.symbol = lastOp.symbol /\ prevOp.date = lastOp.date

\* C1: no LocalTickstore.insert writes to a path that an earlier insert of
\* this store has written: each insert of a (symbol, date) gets a version
\* of its own and so a splay path of its own.
C1_InsertNeverRewrites ==
    [][(nOps' = nOps + 1 /\ lastOp'.op = "insert" /\ lastOp'.ok)
          => lastOp'.path \notin written]_vars

\* C2: after two successive inserts of a (symbol, date) that had no row, the
\* index holds exactly two rows for the key: version 0 ending at the time of
\* the second insert and version 1 ending at the latest-sentinel.
C2_TwoRowsAfterTwoInserts ==
    TwoInsertsOfNewKey =>
        LET rows == RowsOf(df, lastOp.symbol, lastOp.date)
        IN /\ Cardinality(rows) = 2
           /\ \E i \in rows : df[i].version = 0 /\ df[i].end_time = lastOp.time
           /\ \E j \in rows : df[j].version = 1 /\ df[j].end_time = latest_as_of

\* the paths DataFrameIndex.select returns for one date of the symbol
SelectedPaths(symbol, date, start, end, as_of_time) ==
    LET sel == IndexSelect(df, symbol, start, end, as_of_time)
    IN [i \in 1..Len(SelectSeq(sel, LAMBDA row : row.date = date)) |->
            SelectSeq(sel, LAMBDA row : row.date = date)[i].path]

\* C3: after version 0 and then version 1 of a (symbol, date) were inserted,
\* select over a range containing the date returns version 0's path for every
\* asOfTime before the second insert and version 1's path for every asOfTime
\* after it.
C3_SelectAsOf ==
    TwoInsertsOfNewKey =>
        \A start \in Dates, end \in Dates, as_of_time \in Instants :
            (start <= lastOp.date /\ lastOp.date <= end) =>
                LET got == SelectedPaths(lastOp.symbol, lastOp.date,
                                         start, end, as_of_time)
                IN /\ as_of_time < lastOp.time =>
                        got = <<create_write_path(lastOp.date, lastOp.symbol, 0)>>
                   /\ as_of_time > lastOp.time =>
                        got = <<create_write_path(lastOp.date, lastOp.symbol, 1)>>

\* C4: in every state of the index each (symbol, date) has at most one row
\* whose end_time is the latest-sentinel.
C4_OneCurrentRow ==
    \A symbol \in Symbols, date \in Dates :
        Cardinality({i \in RowsOf(df, symbol, date) :
                        df[i].end_time = latest_as_of}) <= 1


(***************************************************************************)
(* Claims about the journal.                                               *)
(***************************************************************************)
\* the step is a call of one of the appender's write operations
WriteStep ==
    /\ jOps' = jOps + 1
    /\ jLast'.op \in {"write_byte", "write_boolean", "write_short", "write_int",
                      "write_long", "write_float", "write_double", "write_string"}

\* C5: the journal is append-only across restarts: no call, of a new
\* appender on the same day either, changes a byte that was stored in a day
\* file after its header.
C5_AppendOnly ==
    [][\A d \in DOMAIN extent : \A i \in 4..(extent[d] - 1) :
            jfiles'[d][i] = jfiles[d][i]]_vars

\* C6: a write operation that fails with NoSpaceException leaves the mapped
\* bytes and the write position as they were before the call.
C6_NoSpaceWritesNothing ==
    [][(WriteStep /\ jLast'.out = "NoSpaceException")
          => (jfiles' = jfiles /\ ap'.pos = ap.pos)]_vars

\* C7: the header of a finalized day file makes get_length() return the
\* number of bytes the appender stored after the header.
C7_FinalizedLength ==
    \A d \in DOMAIN finalizedLen : get_length(jfiles[d]) = finalizedLen[d]

\* one day finalized by rollover and a later one by close(), both with content
C7_Witness ==
    /\ jLast.op = "close"
    /\ \E d1, d2 \in DOMAIN finalizedLen :
          /\ d1 < d2
          /\ finalizedLen[d1] > 0 /\ get_length(jfiles[d1]) = finalizedLen[d1]
          /\ finalizedLen[d2] > 0 /\ get_length(jfiles[d2]) = finalizedLen[d2]

\* C9: the first write after the date has changed finalizes the header of the
\* previous day's file with the one's-complement of the bytes written, unmaps
\* it, maps the new day's file (zero-filled when new) and places the value at
\* offset 4 of it; the data of the previous day's file is not touched.
C9_RolloverOnFirstWrite ==
    [][(WriteStep /\ ap.mm # None /\ ap.current_date # today) =>
          /\ Slice(jfiles'[ap.mm], 0, 4) = pack_int(-(ap.pos - 4) - 1)
          /\ \A i \in 4..(max_size - 1) : jfiles'[ap.mm][i] = jfiles[ap.mm][i]
          /\ ap'.mm = today
          /\ ap'.current_date = today
          /\ today \in DOMAIN jfiles'
          /\ jLast'.out = "ok" =>
                /\ Slice(jfiles'[today], 4, 4 + Len(jLast'.bytes)) = jLast'.bytes
                /\ ap'.pos = 4 + Len(jLast'.bytes)
                /\ today \notin DOMAIN jfiles =>
                      \A i \in 0..(max_size - 1) :
                          (i < 4 \/ i >= ap'.pos) => jfiles'[today][i] = 0]_vars

\* C10: after a write on day D failed with NoSpaceException, the first write
\* on day D+1 of a value that fits in an empty file rolls over and succeeds.
C10_NoSpaceEndsWithTheDay ==
    [][(/\ WriteStep
        /\ jLast.out = "NoSpaceException"
        /\ jLast.day = ap.current_date
        /\ today = jLast.day + 1
        /\ jLast'.valid
        /\ 4 + Len(jLast'.bytes) < max_size)
          => (jLast'.out = "ok" /\ ap'.current_date = today)]_vars


(***************************************************************************)
(* Claims about the feed and the upload job.                               *)
(***************************************************************************)
\* the records journaled on day d, as they were given to the appender
RecordsOn(d) ==
    LET on == SelectSeq(sent, LAMBDA e : e.day = d)
    IN [i \in 1..Len(on) |-> on[i].msg]

\* every record journaled on day d went to that day's file as a whole
WholeDay(d) ==
    \A i \in 1..Len(sent) :
        sent[i].day = d => (sent[i].whole /\ sent[i].done /\ ~sent[i].failed)

\* C8: records written with a day rollover between two of them are all
\* replayed, in write order and unaltered, from the two finalized day files.
C8_ReplayReproduces ==
    \A d1, d2 \in DOMAIN finalizedLen :
        (/\ d1 < d2
         /\ WholeDay(d1) /\ WholeDay(d2)
         /\ RecordsOn(d1) # <<>> /\ RecordsOn(d2) # <<>>)
          => replay(jfiles[d1]) \o replay(jfiles[d2]) = RecordsOn(d1) \o RecordsOn(d2)

\* a LocalTickstore call was made in this step
StoreCallStep == nOps' # nOps

\* C11: once the store is closed it stays closed; every later insert, delete
\* and select raises the closed-store exception and leaves the index, the
\* index side-file and the splay files as they were; a later close() returns
\* and changes nothing.
C11_ClosedIsTerminal ==
    [][closed =>
         /\ closed'
         /\ (StoreCallStep /\ lastOp'.op \in {"insert", "delete", "select"}) =>
                /\ raised' = "Exception"
                /\ ~lastOp'.ok
                /\ df' = df /\ files' = files /\ index_h5' = index_h5
         /\ (StoreCallStep /\ lastOp'.op = "close") =>
                /\ raised' = ""
                /\ df' = df /\ files' = files /\ index_h5' = index_h5
      ]_vars

\* a select was refused after a close()
C11_Witness ==
    /\ closed
    /\ prevOp.op = "close" /\ prevOp.ok
    /\ lastOp.op = "select"
    /\ raised = "Exception"

\* C12: after destroy() nothing of the store is left on disk, and an insert
\* issued right after destroy() raises the closed-store exception and creates
\* no file.
C12_DestroyedStoreRefusesInsert ==
    /\ lastOp.op = "destroy" =>
          DOMAIN files = {} /\ index_h5 = NoIndexFile
    /\ (prevOp.op = "destroy" /\ lastOp.op = "insert") =>
          /\ raised = "Exception"
          /\ DOMAIN files = {} /\ index_h5 = NoIndexFile

\* the last call was a select that returned a result
SelectReturned == lastOp.op = "select" /\ lastSelect.returned

\* C13: a select over [start, end] returns only ticks whose timestamp lies
\* within [start, end], in ascending timestamp order, and returns an empty
\* result when no index row matches.
C13_SelectWithinRangeSorted ==
    SelectReturned =>
        LET ticks == lastSelect.ticks
        IN /\ \A i \in 1..Len(ticks) :
                 ticks[i] >= lastSelect.start /\ ticks[i] <= lastSelect.end
           /\ \A i \in 1..(Len(ticks) - 1) : ticks[i] <= ticks[i + 1]
           /\ lastSelect.matched = 0 => ticks = <<>>

\* batches were inserted on two dates of one symbol and a select over both
\* dates returned ticks of both, leaving out the ticks stamped after the range
C13_Witness ==
    /\ SelectReturned
    /\ lastSelect.matched = 2
    /\ lastSelect.start = 1 /\ lastSelect.end = 2
    /\ lastSelect.ticks = <<1, 1, 2, 2>>
    /\ \A p \in DOMAIN files : p \in written

\* this step is a delete that reached DataFrameIndex.delete
IndexDeleteStep ==
    StoreCallStep /\ lastOp'.op = "delete" /\ ~closed

\* C14: DataFrameIndex.delete on a key with rows ends the key's current row at
\* now and adds no row or version; afterwards a select as of the latest
\* sentinel returns no entry for the key, and a select as of an instant up to
\* now at which a row of the key was valid still returns that row; on a key
\* with no rows it changes nothing.
C14_DeleteEndsCurrentRow ==
    [][IndexDeleteStep =>
         LET symbol == lastOp'.symbol
             date == lastOp'.date
             rows == RowsOf(df, symbol, date)
         IN IF rows = {} THEN df' = df
            ELSE /\ Len(df') = Len(df)
                 /\ \A i \in 1..Len(df) :
                       /\ df'[i] = [df[i] EXCEPT !.end_time = df'[i].end_time]
                       /\ (i \in rows /\ df[i].end_time = latest_as_of) =>
                             df'[i].end_time = now
                 /\ IndexSelect(df', symbol, date, date, latest_as_of) = <<>>
                 /\ \A t \in start_as_of..now : \A i \in rows :
                       (df[i].start_time <= t /\ t <= df[i].end_time) =>
                           \E k \in 1..Len(IndexSelect(df', symbol, date, date, t)) :
                               IndexSelect(df', symbol, date, date, t)[k].path
                                   = df[i].path
      ]_vars

\* C15: the header of the day file the appender has mapped and not finalized
\* reads 0, and the header of every finalized day file is non-zero.
C15_HeaderZeroWhileOpen ==
    /\ (ap.mm # None /\ ap.mm \notin DOMAIN finalizedLen) =>
          unpack_signed(Slice(jfiles[ap.mm], 0, 4)) = 0
    /\ \A d \in DOMAIN finalizedLen :
          unpack_signed(Slice(jfiles[d], 0, 4)) # 0

\* the rows of an index, whatever their order
RowSet(t) == {t[i] : i \in 1..Len(t)}

\* this step bootstraps the index a second time: the store was opened on a
\* directory, closed, its index side-file lost, and is opened again
SecondBootstrap ==
    /\ StoreCallStep
    /\ lastOp'.op = "open" /\ ~lastOp'.existed
    /\ lastOp.op = "close" /\ prevOp.op = "none"

\* C16: a second bootstrap over the directory the first one left renames no
\* file and builds the index the first one built: the same keys, versions,
\* validity intervals and paths.
C16_BootstrapIdempotent ==
    [][SecondBootstrap => (files' = files /\ RowSet(df') = RowSet(df))]_vars

(***************************************************************************)
(* Claims about the codec and the reader.                                  *)
(***************************************************************************)
\* this step is a JournalReader call
ReaderStep ==
    /\ jOps' # jOps
    /\ jLast' = jLast /\ ap' = ap /\ jfiles' = jfiles
    /\ rLast'.op \notin {"none", "create_reader"}

\* C17: _read_stopbit at the position a successful _write_stopbit(n) began at
\* returns n and leaves the reader where the appender stopped; _write_stopbit
\* of a negative value raises ValueError and leaves the files and the appender
\* (its position included) as they were.
C17_StopbitRoundTrip ==
    [][/\ (/\ ReaderStep
           /\ rLast'.op = "read_stopbit"
           /\ jLast.op = "write_stopbit" /\ jLast.out = "ok"
           /\ rd.mm = ap.mm /\ rd.offset = sbArg.pos)
          => /\ rLast'.out = "ok" /\ rLast'.text = ""
             /\ rLast'.value = sbArg.value
             /\ rd'.offset = ap.pos
             /\ rd'.offset - rd.offset = Len(jLast.bytes)
       /\ (/\ jOps' # jOps
           /\ jLast'.op = "write_stopbit"
           /\ sbArg' # sbArg \/ jLast' # jLast \/ ap' # ap
           /\ sbArg'.value < 0)
          => /\ jLast'.out = "ValueError"
             /\ jfiles' = jfiles /\ ap' = ap
      ]_vars

\* 2^31 - 1 was written in five bytes and read back
C17_Witness ==
    /\ jLast.op = "write_stopbit" /\ jLast.out = "ok"
    /\ sbArg.value = 2147483647 /\ Len(jLast.bytes) = 5
    /\ rLast.op = "read_stopbit" /\ rLast.out = "ok"
    /\ rLast.from = sbArg.pos
    /\ rLast.value = 2147483647
    /\ rd.offset = ap.pos

\* the read operation that mirrors a write operation
Mirror(op) ==
    CASE op = "write_byte" -> "read_byte"
      [] op = "write_short" -> "read_short"
      [] op = "write_int" -> "read_int"
      [] op = "write_long" -> "read_long"
      [] op = "write_double" -> "read_double"
      [] OTHER -> "none"

\* C18: a write_byte of a signed 8-bit value is accepted, and a value of a
\* fixed-width type (float left aside: 0.1 is no binary32 value) that was
\* written and is read from the offset it was written at comes back as it was.
C18_FixedWidthRoundTrip ==
    [][/\ jLast'.op = "write_byte" =>
             jLast'.out \notin {"ValueError", "AssertionError"}
       /\ (/\ ReaderStep
           /\ rLast'.op = Mirror(jLast.op)
           /\ jLast.out = "ok"
           /\ rd.mm = ap.mm /\ rd.offset = ap.pos - Len(jLast.bytes))
          => /\ rLast'.out = "ok"
             /\ IF rLast'.op = "read_double"
                THEN rLast'.text = unpack_double(jLast.bytes)
                ELSE rLast'.text = "" /\ rLast'.value = unpack_signed(jLast.bytes)
      ]_vars

\* the number of bytes a fixed-width read takes
ReadSize(op) ==
    CASE op \in {"read_byte", "read_boolean"} -> 1
      [] op = "read_short" -> 2
      [] op \in {"read_int", "read_float"} -> 4
      [] op \in {"read_long", "read_double"} -> 8
      [] OTHER -> 0

\* C19: a fixed-width read that would extend past the logical extent of the
\* day file (offset 4 + get_length()) or past the mapped size raises and
\* leaves the read offset where it was.
C19_ReadWithinExtent ==
    [][(/\ ReaderStep
        /\ ReadSize(rLast'.op) > 0
        /\ \/ rd.offset + ReadSize(rLast'.op) > 4 + get_length(jfiles[rd.mm])
           \/ rd.offset + ReadSize(rLast'.op) > max_size)
       => (rLast'.out # "ok" /\ rd' = rd)
      ]_vars

\* C20: the seven field writes of one match message all go to the file of the
\* day its first field was written on, so every day file holds whole records.
C20_WholeRecordsPerDay ==
    \A i \in 1..Len(sent) : sent[i].done => sent[i].whole

(***************************************************************************)
(* Claims about the history of the index.                                  *)
(***************************************************************************)
\* C22: a row of the index whose end_time is no longer the latest sentinel is
\* left as it is, at its place, by every later insert and delete.
C22_ClosedRowsImmutable ==
    [][(StoreCallStep /\ lastOp'.op \in {"insert", "delete"}) =>
          \A i \in 1..Len(df) :
              df[i].end_time # latest_as_of =>
                  (i <= Len(df') /\ df'[i] = df[i])
      ]_vars

\* C23: after the bootstrap and after every insert, every row of the index
\* names an existing splay file called {symbol}_{version}.
C23_RowPathsExist ==
    lastOp.op \in {"none", "insert"} =>
        \A i \in 1..Len(df) :
            /\ df[i].path \in DOMAIN files
            /\ df[i].path.name = VersionedName(df[i].symbol, df[i].version)

\* C24: for every symbol, date and as_of_time DataFrameIndex.select returns at
\* most one row of that (symbol, date).
C24_SelectAtMostOne ==
    \A symbol \in Symbols, date \in Dates, as_of_time \in Instants :
        Len(IndexSelect(df, symbol, date, date, as_of_time)) <= 1

(***************************************************************************)
(* Claims about the subscriber and the upload job.                         *)
(***************************************************************************)
\* C26: every field of a journaled match survives the replay of its finalized
\* day file: time, sequence, trade_id, product_id, side, size and price are
\* decoded in the order and widths they were written in, and 'buy' and 'sell'
\* come back as 'buy' and 'sell' (for records that went whole to one file).
C26_FieldsSurvive ==
    (\A i \in 1..Len(sent) : sent[i].whole /\ ~sent[i].failed) =>
        \A d \in DOMAIN finalizedLen :
            WholeDay(d) => replay(jfiles[d]) = RecordsOn(d)

(***************************************************************************)
(* Part 5 - scheduler.py: the daily upload job, beside the running feed    *)
(***************************************************************************)
\* the end of the slice mm[offset:offset + val_sz] of read_string: the slice
\* is cut at the end of the mapping
string_stop(sb) ==
    IF sb.text = "wide" THEN max_size
    ELSE IF sb.rd.offset + sb.value > max_size THEN max_size
    ELSE sb.rd.offset + sb.value

\* JournalReader.read_string after _read_stopbit returned ret as val_sz:
\* decode() raises on bytes that are not UTF-8, and the offset moves by the
\* length read (past the mapping when the length is larger)
read_string_slice(sb, ret) ==
    IF \E i \in DOMAIN ret : ret[i] = -1
    THEN ReadRaise(sb.rd, "UnicodeDecodeError")
    ELSE [out |-> "ok", value |-> 0, text |-> ret,
          rd |-> [sb.rd EXCEPT !.offset = string_stop(sb)]]

read_string_sized(sb, fs) ==
    IF sb.out # "ok" THEN sb
    ELSE read_string_slice(sb, decode(Slice(fs[sb.rd.mm], sb.rd.offset,
                                            string_stop(sb))))

\* JournalReader.read_string called on reader r
reader_read_string(r, fs) == read_string_sized(reader_read_stopbit(r, fs), fs)

\* upload_ticks_daily: the k-th reader call of the loop body
read_field(k, r, fs) ==
    CASE k \in {1, 6, 7} -> read_double(r, fs)
      [] k \in {2, 3} -> read_long(r, fs)
      [] k = 4 -> reader_read_string(r, fs)
      [] k = 5 -> read_short(r, fs)

\* the one element of a singleton set: {F(v) : v \in {e}} computes e once
\* where F uses it several times
Once(S) == CHOOSE v \in S : TRUE

\* the k-th reader call after the calls with outcome got: it is not reached
\* when one of them raised
read_more(k, got, fs) ==
    Once({[out |-> call.out, rd |-> call.rd, calls |-> Append(got.calls, call)] :
            call \in {read_field(k, got.rd, fs)}})

next_read(k, got, fs) ==
    Once({IF g.out # "ok" THEN g ELSE read_more(k, g, fs) : g \in {got}})

\* upload_ticks_daily: one pass of the loop body with reader r (a sequence or
\* trade_id that does not fit 32 bits is kept as 0)
upload_record(r, fs) ==
    LET got == next_read(7,
               next_read(6,
               next_read(5,
               next_read(4,
               next_read(3,
               next_read(2,
               next_read(1, [out |-> "ok", rd |-> r, calls |-> <<>>], fs),
               fs), fs), fs), fs), fs), fs)
    IN IF got.out # "ok"
       THEN [out |-> got.out, rd |-> r, record |-> NoMsg]
       ELSE [out |-> "ok", rd |-> got.rd,
             record |-> [time |-> got.calls[1].text,
                         sequence |-> got.calls[2].value,
                         trade_id |-> got.calls[3].value,
                         product_id |-> got.calls[4].text,
                         side |-> IF got.calls[5].value = 0 THEN "buy" ELSE "sell",
                         size |-> got.calls[6].text,
                         price |-> got.calls[7].text]]

\* records.append(record) seen from the end of the loop: the records from
\* this one on, or the exception a later pass raised
append_record(record, rest) ==
    IF rest.out # "ok" THEN rest
    ELSE [out |-> "ok", records |-> <<record>> \o rest.records]

\* upload_ticks_daily: the loop over the day file, while offset < length
RECURSIVE upload_loop(_, _, _)
RECURSIVE upload_pass(_, _, _)
upload_pass(one, fs, length) ==
    IF one.out # "ok" THEN [out |-> one.out, records |-> <<>>]
    ELSE append_record(one.record, upload_loop(one.rd, fs, length))

upload_loop(r, fs, length) ==
    IF r.offset < length
    THEN Once({upload_pass(one, fs, length) : one \in {upload_record(r, fs)}})
    ELSE [out |-> "ok", records |-> <<>>]

\* the symbol upload_ticks_daily uploads
upload_symbol == "BTC"

\* LocalTickstore.__init__ in upload_ticks_daily: the index read from the
\* side-file, or bootstrapped from the splay files when there is none
upload_tickstore ==
    IF index_h5 # NoIndexFile THEN {[df |-> index_h5, files |-> files]}
    ELSE {[df |-> BootIndex(scan), files |-> BootFiles(files, scan)] :
            scan \in ScanOrders(DOMAIN files)}

\* upload_ticks_daily, run by the scheduler while the feed process journals:
\* the day file of yesterday is read up to the length in its header and the
\* records are inserted into a tickstore opened for the job; the tickstore is
\* closed (and its index flushed) when the job drops it
UploadTicksDaily ==
    /\ nOps < MaxUploads
    /\ nOps' = nOps + 1
    /\ prevOp' = Brief(lastOp)
    /\ lastSelect' = NoSelect
    /\ LET upload_date == today - 1
       IN IF upload_date \notin DOMAIN jfiles
          THEN /\ raised' = "FileNotFoundError"
               /\ lastOp' = OpRecord("create_reader", upload_symbol, upload_date,
                                     FALSE, FALSE, 0, NoPath)
               /\ UNCHANGED <<df, files, index_h5, closed, written>>
          ELSE LET reader == [mm |-> upload_date, offset |-> 4]
                   length == get_length(jfiles[upload_date])
                   read == upload_loop(reader, jfiles, length)
                   \* datetime.fromtimestamp of bytes that were not written as
                   \* a time can raise
                   odd == \E i \in DOMAIN read.records :
                              read.records[i].time = "other"
               IN \E overflow \in (IF odd THEN BOOLEAN ELSE {FALSE}) :
                    IF read.out # "ok" \/ overflow
                    THEN /\ raised' = IF overflow THEN "OverflowError" ELSE read.out
                         /\ lastOp' = OpRecord("read", upload_symbol, upload_date,
                                               FALSE, FALSE, 0, NoPath)
                         /\ UNCHANGED <<df, files, index_h5, closed, written>>
                    ELSE \E tickstore \in upload_tickstore :
                           LET r == IndexInsert(tickstore.df, upload_symbol,
                                                upload_date, now)
                               existed == RowsOf(tickstore.df, upload_symbol,
                                                 upload_date) # {}
                           IN /\ closed' = TRUE
                              /\ IF ~r.ok
                                 THEN /\ raised' = "ValueError"
                                      /\ df' = tickstore.df
                                      /\ index_h5' = tickstore.df
                                      /\ files' = tickstore.files
                                      /\ written' = written
                                      /\ lastOp' = OpRecord("insert", upload_symbol,
                                                    upload_date, FALSE, existed,
                                                    r.version, NoPath)
                                 ELSE /\ raised' = ""
                                      /\ df' = r.df
                                      /\ index_h5' = r.df
                                      /\ files' = [p \in DOMAIN tickstore.files
                                                         \cup {r.path} |->
                                                     IF p = r.path THEN read.records
                                                     ELSE tickstore.files[p]]
                                      /\ written' = written \cup {r.path}
                                      /\ lastOp' = OpRecord("insert", upload_symbol,
                                                    upload_date, TRUE, existed,
                                                    r.version, r.path)
    /\ UNCHANGED now
    /\ UNCHANGED notStore

\* the tickstore directory before the first upload: empty, no store open
UploadInit ==
    /\ df = <<>> /\ files = <<>> /\ index_h5 = NoIndexFile /\ closed = TRUE
    /\ now = 1 /\ nOps = 0 /\ lastOp = NoOp /\ prevOp = NoPrev /\ written = {}
    /\ raised = "" /\ lastSelect = NoSelect

UploadNext ==
    \/ FeedNext
    \/ UploadTicksDaily

\* the feed process and the scheduler process side by side
InitUpload == FeedInit /\ UploadInit /\ ReaderIdle /\ SubscriberInit

SpecUpload == InitUpload /\ [][UploadNext]_vars

\* C21: the upload job inserts a batch for a day only when the day file of
\* that day has been finalized; while its header is still 0 the job creates
\* no tickstore version for that day.
C21_UploadOnlyFinalized ==
    [][(StoreCallStep /\ lastOp'.op = "insert") =>
          /\ (today - 1) \in DOMAIN finalizedLen
          /\ Slice(jfiles[today - 1], 0, 4) # <<0, 0, 0, 0>>
      ]_vars

(***************************************************************************)
(* Part 6 - coinbase.py: the connect loops of the subscriber, its          *)
(* keep-alive timer and close()                                            *)
(***************************************************************************)
\* the n-th match message the exchange publishes on the matches channel
Match(n) ==
    [sequence |-> n, trade_id |-> n, product_id |-> <<66>>,
     side |-> IF n % 2 = 1 THEN "buy" ELSE "sell",
     size |-> "1.5", price |-> "0.1", time |-> "2.0"]

\* read_message() returns None once the connection is closed
ClosedMsg == 0

\* one appender call of _on_message after the calls with outcome w: it is
\* not reached when one of them raised
next_write(k, msg, w, now_date) ==
    Once({IF m.out # "ok" THEN m ELSE FieldWrite(k, msg, m.ap, m.fs, now_date) :
            m \in {w}})

\* CoinbaseProSubscriber._on_message for a match message: the seven appender
\* calls in order, up to the first one that raises; self.appender.write_double
\* raises AttributeError when self.appender is None
on_message(msg, a, fs, now_date) ==
    IF appender
    THEN next_write(7, msg,
         next_write(6, msg,
         next_write(5, msg,
         next_write(4, msg,
         next_write(3, msg,
         next_write(2, msg,
         next_write(1, msg, [ap |-> a, fs |-> fs, out |-> "ok"], now_date),
         now_date), now_date), now_date), now_date), now_date), now_date)
    ELSE [ap |-> a, fs |-> fs, out |-> "AttributeError"]

\* IOLoop.run_sync(subscriber.connect) raises what connect() raises, and the
\* process ends; otherwise the IOLoop keeps running
Running == IF coros = <<>> THEN TRUE ELSE coros[1].pc # "raised"

\* connect() called: it runs to its first await, websocket_connect
start_connect(by) ==
    Append(coros, [pc |-> "connecting", conn |-> None, by |-> by])

\* subscribe_coinbase_trades: IOLoop.instance().run_sync(subscriber.connect)
RunSync ==
    /\ coros = <<>>
    /\ coros' = start_connect("run_sync")
    /\ UNCHANGED <<appender, ws, conns, published, sLast>>
    /\ UNCHANGED <<storeVars, journalVars, feedVars, readerVars>>

\* the PeriodicCallback of __init__ fires on the running IOLoop:
\* _keep_alive calls connect() when _ws_connection is None
KeepAlive ==
    /\ Running
    /\ coros # <<>>
    /\ Len(coros) < MaxConnects
    /\ ws = None
    /\ coros' = start_connect("keep_alive")
    /\ UNCHANGED <<appender, ws, conns, published, sLast>>
    /\ UNCHANGED <<storeVars, journalVars, feedVars, readerVars>>

\* connect() of coroutine i resumes from websocket_connect: the new
\* connection is assigned to _ws_connection, the subscription is sent on it
\* and the loop awaits its first read_message
Connected(i) ==
    /\ Running
    /\ i \in DOMAIN coros
    /\ coros[i].pc = "connecting"
    /\ LET c == Len(conns) + 1
       IN /\ ws' = c
          /\ conns' = Append(conns, [open |-> TRUE, waiters |-> <<i>>,
                                     inbox |-> <<>>])
          /\ coros' = [coros EXCEPT ![i] = [@ EXCEPT !.pc = "reading",
                                                     !.conn = c]]
    /\ UNCHANGED <<appender, published, sLast>>
    /\ UNCHANGED <<storeVars, journalVars, feedVars, readerVars>>

\* the exchange publishes a match: every open subscribed connection gets it
Publish ==
    /\ published < MaxMsgs
    /\ published' = published + 1
    /\ conns' = [c \in DOMAIN conns |->
                    IF conns[c].open
                    THEN [conns[c] EXCEPT !.inbox = Append(@, published + 1)]
                    ELSE conns[c]]
    /\ UNCHANGED <<appender, ws, coros, sLast>>
    /\ UNCHANGED <<storeVars, journalVars, feedVars, readerVars>>

\* the exchange (or the network) closes connection c: its reader gets None
ServerClose(c) ==
    /\ c \in DOMAIN conns
    /\ conns[c].open
    /\ conns' = [conns EXCEPT ![c] = [@ EXCEPT !.open = FALSE,
                                               !.inbox = Append(@, ClosedMsg)]]
    /\ UNCHANGED <<appender, ws, coros, published, sLast>>
    /\ UNCHANGED <<storeVars, journalVars, feedVars, readerVars>>

\* the loop of connect() in coroutine i resumes from read_message with the
\* next message of the connection it awaited: None ends the loop through
\* _on_connection_close; a match is journaled by _on_message and the loop
\* awaits self._ws_connection.read_message() again
ReadMessage(i) ==
    /\ Running
    /\ i \in DOMAIN coros
    /\ coros[i].pc = "reading"
    /\ LET c == coros[i].conn
           msg == Head(conns[c].inbox)
           taken == [conns EXCEPT ![c] = [@ EXCEPT !.inbox = Tail(@),
                                                   !.waiters = Tail(@)]]
       IN /\ conns[c].inbox # <<>>
          /\ Head(conns[c].waiters) = i
          /\ IF msg = ClosedMsg
             THEN /\ ws' = None
                  /\ coros' = [coros EXCEPT ![i] = [@ EXCEPT !.pc = "returned",
                                                             !.conn = None]]
                  /\ conns' = taken
                  /\ UNCHANGED <<journalVars, feedVars>>
             ELSE LET w == on_message(Match(msg), ap, jfiles, today)
                  IN /\ ap' = w.ap
                     /\ jfiles' = w.fs
                     /\ finalizedLen' = Finalized(ap, w)
                     /\ extent' = Extent(w)
                     /\ sent' = Append(sent, [msg |-> Match(msg), day |-> today,
                                              whole |-> TRUE,
                                              done |-> w.out = "ok",
                                              failed |-> w.out # "ok"])
                     /\ UNCHANGED <<max_size, today, jOps, jLast, fpc, fmsg, ws>>
                     /\ IF w.out # "ok" \/ ws = None
                        THEN /\ coros' = [coros EXCEPT ![i] =
                                            [@ EXCEPT !.pc = "raised",
                                                      !.conn = None]]
                             /\ conns' = taken
                        ELSE /\ coros' = [coros EXCEPT ![i] =
                                            [@ EXCEPT !.conn = ws]]
                             /\ conns' = [taken EXCEPT ![ws] =
                                            [@ EXCEPT !.waiters = Append(@, i)]]
    /\ UNCHANGED <<appender, published, sLast>>
    /\ UNCHANGED <<storeVars, readerVars>>

\* CoinbaseProSubscriber.close(): 'if not self.appender' and
\* 'if not self._ws_connection' run their bodies when the reference is None
\* (None.close() raises AttributeError) and skip them when it is set
SubscriberClose ==
    /\ Running
    /\ sLast.calls < MaxCloses
    /\ sLast' = [calls |-> sLast.calls + 1,
                 out |-> IF ~appender \/ ws = None THEN "AttributeError"
                         ELSE "ok"]
    /\ UNCHANGED <<appender, ws, coros, conns, published>>
    /\ UNCHANGED <<storeVars, journalVars, feedVars, readerVars>>

SubscriberNext ==
    \/ RunSync
    \/ KeepAlive
    \/ \E i \in 1..MaxConnects : Connected(i)
    \/ \E i \in 1..MaxConnects : ReadMessage(i)
    \/ Publish
    \/ \E c \in 1..MaxConnects : ServerClose(c)
    \/ SubscriberClose

\* the subscriber process on its IOLoop and the exchange
SpecSubscriber == InitFeed /\ [][SubscriberNext]_vars

\* the connect() coroutines that are establishing a connection or reading
InProgress == {i \in DOMAIN coros : coros[i].pc \in {"connecting", "reading"}}

\* C25: at most one connect/read loop is in progress at any time (the
\* keep-alive starts no connect() while another is establishing or reading),
\* and no match message is journaled more than once.
C25_SingleConnectLoop ==
    /\ Cardinality(InProgress) <= 1
    /\ \A i, j \in DOMAIN sent :
           i # j => sent[i].msg.sequence # sent[j].msg.sequence

\* a CoinbaseProSubscriber.close() call was made in this step
CloseStep == sLast'.calls # sLast.calls

\* C27: close() on a subscriber that holds an appender and an open connection
\* closes the appender (the file is unmapped and its header written) and the
\* connection, and clears both references; close() on a subscriber whose
\* references are cleared changes nothing and raises nothing.
C27_CloseReleasesBoth ==
    [][CloseStep =>
         /\ (appender /\ ws # None) =>
               /\ ~appender'
               /\ ws' = None
               /\ ap'.mm = None
               /\ ~conns'[ws].open
               /\ sLast'.out = "ok"
         /\ (~appender /\ ws = None) =>
               /\ sLast'.out = "ok"
               /\ UNCHANGED <<appender, ws, ap, jfiles, conns>>
      ]_vars

====
